---- MODULE Spec2Model ----
(***************************************************************************)
(* Model of txtexeval/extractor.py: the extractor classes, the two         *)
(* decorators return_content and check_content_status, the per-class       *)
(* _content_status policies and the registry get_extractor_cls.            *)
(*                                                                         *)
(* A step of the model is one step of one extract() call.  Spec is the     *)
(* caller that evaluates its extractor instances one after the other, each *)
(* bound to its own data instance; SpecConc runs the calls concurrently.   *)
(***************************************************************************)
EXTENDS Naturals, Sequences, FiniteSets, TLC

VARIABLES
    slug,       \* slug[i]: the slug the caller looked up to obtain instance i's class
    cls,        \* cls[i]: the extractor class instance i was constructed from
    pc,         \* pc[i]: position of instance i's extract() call
    response,   \* response[i]: what the service answered to instance i
    request,    \* request[i]: the request instance i built and sent
    attrs,      \* attrs[i]: instance attributes; attrs[i]._content is the working buffer
    outcome,    \* outcome[i]: the result of extract(): a returned value or a raised error
    reads,      \* reads[i]: how often the call read each member of its data instance
    outbound,   \* outbound[i]: number of outbound calls the call performed
    policyRuns, \* policyRuns[i]: number of times _content_status ran in the call
    calls,      \* calls[i]: number of extract() calls made on instance i
    before,     \* before[i]: attrs[i] as it was when the current call began
    turn        \* the instance the caller is evaluating; 0 when all run at once

vars == <<slug, cls, pc, response, request, attrs, outcome, reads, outbound,
          policyRuns, calls, before, turn>>

\* Number of extractor instances the caller evaluates.
NumInstances == 2

\* Number of times the caller may call extract() on one instance.
MaxCalls == 2

Inst == 1 .. NumInstances

None == "None"

(***************************************************************************)
(* Text.  A text is a sequence of code points; a byte string a sequence of *)
(* numbers below 256.                                                      *)
(***************************************************************************)
RECURSIVE AsciiIgnore(_)
\* unicode.encode('ascii', 'ignore'): code points outside ASCII are dropped.
AsciiIgnore(s) ==
    IF s = <<>> THEN <<>>
    ELSE IF Head(s) < 128 THEN <<Head(s)>> \o AsciiIgnore(Tail(s))
                          ELSE AsciiIgnore(Tail(s))

RECURSIVE Encode(_, _)
\* unicode.encode(encoding) for the encodings of the data instances:
\* utf-8 writes a code point in 128..2047 as two bytes, latin-1 as one.
Encode(s, encoding) ==
    IF s = <<>> THEN <<>>
    ELSE LET c == Head(s)
             b == IF encoding = "utf-8" /\ c >= 128
                  THEN <<192 + (c \div 64), 128 + (c % 64)>>
                  ELSE <<c>>
         IN  b \o Encode(Tail(s), encoding)

(***************************************************************************)
(* The classes.                                                            *)
(***************************************************************************)
\* A name with two leading underscores inside a class body is mangled by
\* Python with the name of the class whose body it is written in.
Mangle(c, name) == "_" \o c \o name

\* The class bodies: the attributes each class defines itself.  "extract"
\* maps to the decorators stacked on it (outermost first) and the class
\* whose body holds the method; "_content_status" to the class holding it.
ClassBody(c) ==
    CASE c = "BaseExtractor" ->
            [NAME |-> "", SLUG |-> "", FORMAT |-> "",
             extract |-> [decorators |-> <<>>, body |-> "BaseExtractor"]]
      [] c = "_JsonResponseCheckMin" ->
            [_content_status |-> "_JsonResponseCheckMin"]
      [] c = "BoilerpipeDefaultExtractor" ->
            (Mangle(c, "__extractor_type") :> "default") @@
            [NAME |-> "Boilerpipe DEF", SLUG |-> "boilerpipe_def", FORMAT |-> "json",
             extract |-> [decorators |-> <<"return_content">>, body |-> c]]
      [] c = "BoilerpipeArticleExtractor" ->
            (Mangle(c, "__extractor_type") :> "article") @@
            [NAME |-> "Boilerpipe ART", SLUG |-> "boilerpipe_art", FORMAT |-> "json"]
      [] c = "GooseExtractor" ->
            [NAME |-> "Goose", SLUG |-> "goose", FORMAT |-> "json",
             extract |-> [decorators |-> <<"return_content">>, body |-> c]]
      [] c = "MSSExtractor" ->
            [NAME |-> "MSS", SLUG |-> "mss", FORMAT |-> "html",
             extract |-> [decorators |-> <<"return_content">>, body |-> c]]
      [] c = "PythonReadabilityExtractor" ->
            [NAME |-> "Python Readability", SLUG |-> "python_read", FORMAT |-> "html",
             extract |-> [decorators |-> <<>>, body |-> c]]
      [] c = "NodeReadabilityExtractor" ->
            [NAME |-> "Node Readability", SLUG |-> "node_read", FORMAT |-> "json",
             extract |-> [decorators |-> <<"check_content_status", "return_content">>,
                          body |-> c],
             _content_status |-> c]
      [] c = "AlchemyExtractor" ->
            [NAME |-> "Alchemy API", SLUG |-> "alchemy", FORMAT |-> "json",
             extract |-> [decorators |-> <<"check_content_status", "return_content">>,
                          body |-> c],
             _content_status |-> c]
      [] c = "DiffbotExtractor" ->
            [NAME |-> "Diffbot", SLUG |-> "diffbot", FORMAT |-> "json",
             extract |-> [decorators |-> <<"return_content">>, body |-> c]]
      [] c = "ExtractivExtractor" ->
            [NAME |-> "Extractiv", SLUG |-> "extractiv", FORMAT |-> "json",
             extract |-> [decorators |-> <<"return_content">>, body |-> c]]
      [] c = "RepustateExtractor" ->
            [NAME |-> "Repustate", SLUG |-> "repustate", FORMAT |-> "json",
             extract |-> [decorators |-> <<"check_content_status", "return_content">>,
                          body |-> c],
             _content_status |-> c]
      [] c = "ZemantaExtractor" ->
            [NAME |-> "Zemanta", SLUG |-> "zemanta", FORMAT |-> "txt",
             extract |-> [decorators |-> <<>>, body |-> c]]

Classes ==
    {"BaseExtractor", "_JsonResponseCheckMin", "BoilerpipeDefaultExtractor",
     "BoilerpipeArticleExtractor", "GooseExtractor", "MSSExtractor",
     "PythonReadabilityExtractor", "NodeReadabilityExtractor", "AlchemyExtractor",
     "DiffbotExtractor", "ExtractivExtractor", "RepustateExtractor",
     "ZemantaExtractor"}

\* The namespace of every class, once the module is loaded.
ClassDict == [c \in Classes |-> ClassBody(c)]

\* The method resolution order the class statements give.
MRO(c) ==
    CASE c = "BoilerpipeDefaultExtractor" ->
            <<c, "_JsonResponseCheckMin", "BaseExtractor">>
      [] c = "BoilerpipeArticleExtractor" ->
            <<c, "BoilerpipeDefaultExtractor", "_JsonResponseCheckMin", "BaseExtractor">>
      [] c = "GooseExtractor" ->
            <<c, "_JsonResponseCheckMin", "BaseExtractor">>
      [] c = "BaseExtractor" -> <<c>>
      [] c = "_JsonResponseCheckMin" -> <<c>>
      [] OTHER -> <<c, "BaseExtractor">>

\* Attribute lookup on a class: the first class of the MRO that defines it.
HasAttr(c, name) == \E k \in 1 .. Len(MRO(c)) : name \in DOMAIN ClassDict[MRO(c)[k]]

GetAttr(c, name) ==
    LET k == CHOOSE k \in 1 .. Len(MRO(c)) :
                 /\ name \in DOMAIN ClassDict[MRO(c)[k]]
                 /\ \A j \in 1 .. k - 1 : name \notin DOMAIN ClassDict[MRO(c)[j]]
    IN  ClassDict[MRO(c)[k]][name]

(***************************************************************************)
(* The registry.                                                           *)
(***************************************************************************)
extractor_list ==
    << "BoilerpipeArticleExtractor",
       "BoilerpipeDefaultExtractor",
       "GooseExtractor",
       "MSSExtractor",
       "PythonReadabilityExtractor",
       "NodeReadabilityExtractor",
       "AlchemyExtractor",
       "DiffbotExtractor",
       "ExtractivExtractor",
       "RepustateExtractor",
       "ZemantaExtractor" >>

Registered == { extractor_list[k] : k \in 1 .. Len(extractor_list) }

\* The loop of get_extractor_cls from position k on: the first class whose
\* SLUG equals the argument; falling off the end of the loop returns None.
RECURSIVE ScanFrom(_, _)
ScanFrom(k, extractor_slug) ==
    IF k > Len(extractor_list) THEN None
    ELSE IF GetAttr(extractor_list[k], "SLUG") = extractor_slug
         THEN extractor_list[k]
         ELSE ScanFrom(k + 1, extractor_slug)

\* Variant: a lookup that falls back to the first registered class.
get_extractor_cls_default(extractor_slug) ==
    IF ScanFrom(1, extractor_slug) = None THEN extractor_list[1]
                                          ELSE ScanFrom(1, extractor_slug)

get_extractor_cls(extractor_slug) == ScanFrom(1, extractor_slug)

(***************************************************************************)
(* The collaborators: data instances, the transport's responses.           *)
(***************************************************************************)
\* The data instance handed to instance i.  Every instance has its own.
DataInstanceOf(i) ==
    [raw_html     |-> <<60, 232 + i>>,
     raw_encoding |-> IF i % 2 = 1 THEN "latin-1" ELSE "utf-8",
     url          |-> <<"http://doc", i>>]

Json(status, msg) == [kind |-> "json", status |-> status, msg |-> msg]
Text(chars)       == [kind |-> "text", chars |-> chars]
NoContent         == [kind |-> "none"]

Statuses == {"OK", "ERROR", "WARN"}
Messages == {"quota exceeded"}
ErrMsgs  == {"timed out", "HTTP 500"}

\* What a service can answer with: a JSON document with a status field and
\* an embedded message, or a document that is not JSON.
Texts    == { Text(<<65, 66>>), Text(<<65, 233>>) }
Contents == { Json(s, m) : s \in Statuses, m \in Messages } \cup { Text(<<65, 233>>) }

\* util.Request's response: success(), content, err_msg.
Responses ==
    { [success |-> TRUE, content |-> c, err_msg |-> None] : c \in Contents }
    \cup { [success |-> FALSE, content |-> NoContent, err_msg |-> m] : m \in ErrMsgs }

\* The answers the concurrent calls draw from: a transport failure, a JSON
\* document reporting success and one reporting an error.
ConcResponses ==
    { r \in Responses :
         /\ r.err_msg \in {None, "timed out"}
         /\ r.content.kind # "text"
         /\ r.content.kind = "json" => r.content.status \in {"OK", "ERROR"} }

NoResponse == [success |-> FALSE, content |-> NoContent, err_msg |-> "no response"]
NoRequest  == [method |-> None]

(***************************************************************************)
(* Outcomes of a call.                                                     *)
(***************************************************************************)
Pending        == [kind |-> "pending"]
Return(v)      == [kind |-> "return", value |-> v]
Raise(e, msg)  == [kind |-> "raise", error |-> e, msg |-> msg]

\* ContentExtractorError is a subclass of ExtractorError.
IsExtractorError(o) ==
    o.kind = "raise" /\ o.error \in {"ExtractorError", "ContentExtractorError"}

(***************************************************************************)
(* The extract() bodies.                                                   *)
(***************************************************************************)
\* Variant: the MSS body fetching the raw html a second time for the request.
DataReadsTwice(body) ==
    CASE body \in {"BoilerpipeDefaultExtractor", "GooseExtractor",
                   "AlchemyExtractor", "ExtractivExtractor"} ->
            <<"get_raw_html", "raw_encoding">>
      [] body = "MSSExtractor" ->
            <<"get_raw_html", "get_raw_html">>
      [] body \in {"PythonReadabilityExtractor", "NodeReadabilityExtractor"} ->
            <<"get_raw_html">>
      [] body \in {"DiffbotExtractor", "RepustateExtractor"} ->
            <<"get_url">>
      [] body = "ZemantaExtractor" ->
            <<"get_raw_html", "raw_encoding", "raw_encoding">>
      [] OTHER -> <<>>

\* The members of the data instance a body reads, in the order it reads them.
DataReads(body) ==
    CASE body \in {"BoilerpipeDefaultExtractor", "GooseExtractor",
                   "AlchemyExtractor", "ExtractivExtractor"} ->
            <<"get_raw_html", "raw_encoding">>
      [] body \in {"MSSExtractor", "PythonReadabilityExtractor",
                   "NodeReadabilityExtractor"} ->
            <<"get_raw_html">>
      [] body \in {"DiffbotExtractor", "RepustateExtractor"} ->
            <<"get_url">>
      [] body = "ZemantaExtractor" ->
            <<"get_raw_html", "raw_encoding", "raw_encoding">>
      [] OTHER -> <<>>

Members == {"get_raw_html", "raw_encoding", "get_url"}

CountReads(seq) ==
    [m \in Members |-> Cardinality({k \in 1 .. Len(seq) : seq[k] = m})]

\* Variant: the Diffbot body repeating its GET.
OutboundCallsRetrying(body) ==
    CASE body = "PythonReadabilityExtractor" -> 0
      [] body = "BaseExtractor" -> 0
      [] body = "DiffbotExtractor" -> 2
      [] OTHER -> 1

\* The outbound calls a body makes: req.post() or req.get(), or cm.extract()
\* for Zemanta; python-readability runs in-process.
OutboundCalls(body) ==
    CASE body = "PythonReadabilityExtractor" -> 0
      [] body = "BaseExtractor" -> 0
      [] OTHER -> 1

\* The request a body builds; selfcls is type(self), d the data instance.
BuildRequest(body, selfcls, d) ==
    CASE body = "BoilerpipeDefaultExtractor" ->
            [method   |-> "POST",
             endpoint |-> "settings.BOILERPIPE_API_ENDPOINT",
             data     |-> [extractorType |->
                               GetAttr(selfcls, Mangle(body, "__extractor_type")),
                           rawHtml |-> Encode(d.raw_html, d.raw_encoding)],
             headers  |-> "Content-Type: application/x-www-form-urlencoded"]
      [] body = "GooseExtractor" ->
            [method   |-> "POST",
             endpoint |-> "settings.GOOSE_API_ENDPOINT",
             data     |-> [rawHtml |-> Encode(d.raw_html, d.raw_encoding)],
             headers  |-> "Content-Type: application/x-www-form-urlencoded"]
      [] body = "MSSExtractor" ->
            [method   |-> "POST",
             endpoint |-> "settings.MSS_URL[text]",
             data     |-> Encode(d.raw_html, "utf-8"),
             headers  |-> "Content-Type: text/plain;charset=UTF-8"]
      [] body = "NodeReadabilityExtractor" ->
            [method   |-> "POST",
             endpoint |-> "settings.READABILITY_ENDPOINT",
             data     |-> Encode(d.raw_html, "utf-8"),
             headers  |-> "Content-Type: text/plain;charset=UTF-8"]
      [] body = "AlchemyExtractor" ->
            [method   |-> "POST",
             endpoint |-> "http://access.alchemyapi.com/calls/html/HTMLGetText",
             data     |-> [apikey |-> "settings.ALCHEMY_API_KEY",
                           html |-> Encode(d.raw_html, d.raw_encoding),
                           outputMode |-> "json"],
             headers  |-> None]
      [] body = "DiffbotExtractor" ->
            [method   |-> "GET",
             endpoint |-> "http://www.diffbot.com/api/article",
             data     |-> [token |-> "settings.DIFFBOT_API_KEY", url |-> d.url,
                           format |-> "json", suffix |-> "&stats"],
             headers  |-> None]
      [] body = "ExtractivExtractor" ->
            [method   |-> "POST",
             endpoint |-> "http://rest.extractiv.com/extractiv/",
             data     |-> [api_key |-> "settings.EXTRACTIV_API_KEY",
                           content |-> Encode(d.raw_html, d.raw_encoding),
                           output_format |-> "json"],
             headers  |-> None]
      [] body = "RepustateExtractor" ->
            [method   |-> "GET",
             endpoint |-> "http://api.repustate.com/v1/settings.REPUSTATE_API_KEY/clean-html.json",
             data     |-> [url |-> d.url],
             headers  |-> None]
      [] body = "ZemantaExtractor" ->
            [method   |-> "ClientManager.extract",
             endpoint |-> None,
             data     |-> <<Encode(d.raw_html, d.raw_encoding), d.raw_encoding>>,
             headers  |-> None]
      [] OTHER -> NoRequest

(***************************************************************************)
(* The decorators and the content-status policies.                         *)
(***************************************************************************)
\* Variant: a wrapper that returns the content without looking at success().
return_content_unchecked(resp) == Return(resp.content)

\* return_content's wrapper, applied to the response the body returned.
return_content(resp) ==
    IF ~resp.success THEN Raise("ExtractorError", resp.err_msg)
                     ELSE Return(resp.content)

\* Setting an attribute on an instance creates it or overwrites it.
SetAttr(obj, name, value) == (name :> value) @@ obj

\* The _content_status method held by class c, run on the buffer: json.loads
\* raises ValueError on a document that is not JSON; otherwise the status
\* field decides, by the convention of the class.
ContentStatusOf(c, buf) ==
    IF buf.kind # "json" THEN Raise("ValueError", "No JSON object could be decoded")
    ELSE CASE c = "_JsonResponseCheckMin" ->
                 IF buf.status = "ERROR"
                 THEN Raise("ContentExtractorError", buf.msg)   \* js['errorMsg']
                 ELSE Return(NoContent)
           [] c = "NodeReadabilityExtractor" ->
                 IF buf.status = "ERROR"
                 THEN Raise("ContentExtractorError", "failed")
                 ELSE Return(NoContent)
           [] c = "AlchemyExtractor" ->
                 IF buf.status = "ERROR"
                 THEN Raise("ContentExtractorError", buf.msg)   \* js['statusInfo']
                 ELSE Return(NoContent)
           [] c = "RepustateExtractor" ->
                 IF buf.status # "OK"
                 THEN Raise("ContentExtractorError", buf.status)
                 ELSE Return(NoContent)

\* self._content_status(): the method is looked up on the class of self.
_content_status(selfcls, buf) == ContentStatusOf(GetAttr(selfcls, "_content_status"), buf)

\* The extract method each class resolves to.
ExtractOf == [c \in Classes |-> GetAttr(c, "extract")]
Extract(c) == ExtractOf[c]
Decorated(c, d) == \E k \in 1 .. Len(Extract(c).decorators) : Extract(c).decorators[k] = d

(***************************************************************************)
(* The state machine.                                                      *)
(***************************************************************************)
UnregisteredSlugs == {"", "boilerpipe", "readability"}
Slugs == { GetAttr(c, "SLUG") : c \in Registered } \cup UnregisteredSlugs

InitInstances ==
    /\ slug       = [i \in Inst |-> None]
    /\ cls        = [i \in Inst |-> None]
    /\ pc         = [i \in Inst |-> "new"]
    /\ response   = [i \in Inst |-> NoResponse]
    /\ request    = [i \in Inst |-> NoRequest]
    /\ attrs      = [i \in Inst |-> << >>]
    /\ outcome    = [i \in Inst |-> Pending]
    /\ reads      = [i \in Inst |-> CountReads(<<>>)]
    /\ outbound   = [i \in Inst |-> 0]
    /\ policyRuns = [i \in Inst |-> 0]
    /\ calls      = [i \in Inst |-> 0]
    /\ before     = [i \in Inst |-> << >>]

Init == InitInstances /\ turn = 1

InitConc == InitInstances /\ turn = 0

\* Instance i may take a step: it is the one the caller is evaluating, or
\* the caller has started all calls at once.
Scheduled(i) == turn \in {0, i}

\* The caller looks a slug up and, when a class is found, constructs an
\* instance of it around its data instance (BaseExtractor.__init__).
Construct(i) ==
    /\ Scheduled(i)
    /\ pc[i] = "new"
    /\ \E s \in Slugs :
          LET found == get_extractor_cls(s) IN
          /\ slug' = [slug EXCEPT ![i] = s]
          /\ cls'  = [cls EXCEPT ![i] = found]
          /\ IF found = None
             THEN /\ pc' = [pc EXCEPT ![i] = "notfound"]
                  /\ UNCHANGED attrs
             ELSE /\ pc' = [pc EXCEPT ![i] = "idle"]
                  /\ attrs' = [attrs EXCEPT
                                  ![i] = SetAttr(<< >>, "data_instance", DataInstanceOf(i))]
    /\ UNCHANGED <<response, request, outcome, reads, outbound, policyRuns, calls, before, turn>>

\* What every body does before its result is known: read the data instance,
\* build the request and perform the outbound calls.
RunBody(i) ==
    LET body == Extract(cls[i]).body IN
    /\ calls'    = [calls EXCEPT ![i] = @ + 1]
    /\ before'   = [before EXCEPT ![i] = attrs[i]]
    /\ reads'    = [reads EXCEPT ![i] = CountReads(DataReads(body))]
    /\ request'  = [request EXCEPT
                       ![i] = BuildRequest(body, cls[i], attrs[i]["data_instance"])]
    /\ outbound' = [outbound EXCEPT ![i] = @ + OutboundCalls(body)]

\* The body of an extractor that talks to its service through util.Request:
\* the blocking round trip, ending with the response in hand.  R is the set
\* of answers the service may give.
Fetch(i, R) ==
    /\ Scheduled(i)
    /\ pc[i] = "idle"
    /\ Extract(cls[i]).body \notin {"PythonReadabilityExtractor", "ZemantaExtractor"}
    /\ RunBody(i)
    /\ \E r \in R : response' = [response EXCEPT ![i] = r]
    /\ pc' = [pc EXCEPT ![i] = "fetched"]
    /\ UNCHANGED <<slug, cls, attrs, outcome, policyRuns, turn>>

\* Variant: the working buffer captured by the inner wrapper, before the
\* response's success is looked at.
ReturnContentCapturing(i) ==
    /\ Scheduled(i)
    /\ pc[i] = "fetched"
    /\ Decorated(cls[i], "return_content")
    /\ attrs' = [attrs EXCEPT ![i] = SetAttr(@, "_content", response[i].content)]
    /\ LET o == return_content(response[i]) IN
       IF o.kind = "return" /\ Decorated(cls[i], "check_content_status")
       THEN /\ pc' = [pc EXCEPT ![i] = "yielded"]
            /\ UNCHANGED outcome
       ELSE /\ pc' = [pc EXCEPT ![i] = "done"]
            /\ outcome' = [outcome EXCEPT ![i] = o]
    /\ UNCHANGED <<slug, cls, response, request, reads, outbound, policyRuns, calls, before, turn>>

\* return_content's wrapper, entered after the body returned its response;
\* when check_content_status wraps it, the value it returns is yielded to
\* that wrapper.
ReturnContent(i) ==
    /\ Scheduled(i)
    /\ pc[i] = "fetched"
    /\ Decorated(cls[i], "return_content")
    /\ LET o == return_content(response[i]) IN
       IF o.kind = "return" /\ Decorated(cls[i], "check_content_status")
       THEN /\ pc' = [pc EXCEPT ![i] = "yielded"]
            /\ UNCHANGED outcome
       ELSE /\ pc' = [pc EXCEPT ![i] = "done"]
            /\ outcome' = [outcome EXCEPT ![i] = o]
    /\ UNCHANGED <<slug, cls, response, request, attrs, reads, outbound, policyRuns, calls, before, turn>>

\* Variant: the working buffer kept in one place for all instances (a class
\* attribute) instead of on self.
StoreBufferShared(i) ==
    /\ Scheduled(i)
    /\ pc[i] = "yielded"
    /\ attrs' = [j \in Inst |->
                    IF j = i \/ "_content" \in DOMAIN attrs[j]
                    THEN SetAttr(attrs[j], "_content", response[i].content)
                    ELSE attrs[j]]
    /\ pc' = [pc EXCEPT ![i] = "stored"]
    /\ UNCHANGED <<slug, cls, response, request, outcome, reads, outbound, policyRuns, calls, before, turn>>

\* check_content_status: self._content = extract(self)
StoreBuffer(i) ==
    /\ Scheduled(i)
    /\ pc[i] = "yielded"
    /\ attrs' = [attrs EXCEPT ![i] = SetAttr(@, "_content", response[i].content)]
    /\ pc' = [pc EXCEPT ![i] = "stored"]
    /\ UNCHANGED <<slug, cls, response, request, outcome, reads, outbound, policyRuns, calls, before, turn>>

\* Variant: a policy that leaves the parsed document, without its message,
\* in the working buffer.
ContentStatusRewriting(i) ==
    /\ Scheduled(i)
    /\ pc[i] = "stored"
    /\ policyRuns' = [policyRuns EXCEPT ![i] = @ + 1]
    /\ LET buf == attrs[i]["_content"]
           o   == _content_status(cls[i], buf) IN
       /\ attrs' = [attrs EXCEPT
                       ![i] = IF buf.kind = "json"
                              THEN SetAttr(@, "_content", Json(buf.status, None))
                              ELSE @]
       /\ IF o.kind = "raise"
          THEN /\ pc' = [pc EXCEPT ![i] = "done"]
               /\ outcome' = [outcome EXCEPT ![i] = o]
          ELSE /\ pc' = [pc EXCEPT ![i] = "checked"]
               /\ UNCHANGED outcome
    /\ UNCHANGED <<slug, cls, response, request, reads, outbound, calls, before, turn>>

\* check_content_status: self._content_status()
ContentStatus(i) ==
    /\ Scheduled(i)
    /\ pc[i] = "stored"
    /\ policyRuns' = [policyRuns EXCEPT ![i] = @ + 1]
    /\ LET o == _content_status(cls[i], attrs[i]["_content"]) IN
       IF o.kind = "raise"
       THEN /\ pc' = [pc EXCEPT ![i] = "done"]
            /\ outcome' = [outcome EXCEPT ![i] = o]
       ELSE /\ pc' = [pc EXCEPT ![i] = "checked"]
            /\ UNCHANGED outcome
    /\ UNCHANGED <<slug, cls, response, request, attrs, reads, outbound, calls, before, turn>>

\* check_content_status: return self._content
ReturnBuffer(i) ==
    /\ Scheduled(i)
    /\ pc[i] = "checked"
    /\ outcome' = [outcome EXCEPT ![i] = Return(attrs[i]["_content"])]
    /\ pc' = [pc EXCEPT ![i] = "done"]
    /\ UNCHANGED <<slug, cls, response, request, attrs, reads, outbound, policyRuns, calls, before, turn>>

\* PythonReadabilityExtractor.extract: the document summary, computed in
\* process, is returned encoded to ASCII.  response[i] records the summary.
Summarize(i) ==
    /\ Scheduled(i)
    /\ pc[i] = "idle"
    /\ Extract(cls[i]).body = "PythonReadabilityExtractor"
    /\ RunBody(i)
    /\ \E t \in Texts :
          /\ response' = [response EXCEPT
                             ![i] = [success |-> TRUE, content |-> t, err_msg |-> None]]
          /\ outcome' = [outcome EXCEPT ![i] = Return(Text(AsciiIgnore(t.chars)))]
    /\ pc' = [pc EXCEPT ![i] = "done"]
    /\ UNCHANGED <<slug, cls, attrs, policyRuns, turn>>

\* ZemantaExtractor.extract up to cm.extract(...) returning.  response[i]
\* records the client's answer: error is err_msg (None when there is no
\* error), text is content.
ZemantaCall(i, R) ==
    /\ Scheduled(i)
    /\ pc[i] = "idle"
    /\ Extract(cls[i]).body = "ZemantaExtractor"
    /\ RunBody(i)
    /\ \E r \in R : response' = [response EXCEPT ![i] = r]
    /\ pc' = [pc EXCEPT ![i] = "fetched"]
    /\ UNCHANGED <<slug, cls, attrs, outcome, policyRuns, turn>>

\* ZemantaExtractor.extract: if response.error: raise ...; return response.text
ZemantaCheck(i) ==
    /\ Scheduled(i)
    /\ pc[i] = "fetched"
    /\ Extract(cls[i]).body = "ZemantaExtractor"
    /\ outcome' = [outcome EXCEPT
                      ![i] = IF response[i].err_msg # None
                             THEN Raise("ExtractorError", response[i].err_msg)
                             ELSE Return(response[i].content)]
    /\ pc' = [pc EXCEPT ![i] = "done"]
    /\ UNCHANGED <<slug, cls, response, request, attrs, reads, outbound, policyRuns, calls, before, turn>>

\* The caller has the outcome of instance i (or found no class), drops the
\* instance and turns to the next one.
Collect(i) ==
    /\ turn = i
    /\ pc[i] \in {"done", "notfound"}
    /\ slug'       = [slug EXCEPT ![i] = None]
    /\ cls'        = [cls EXCEPT ![i] = None]
    /\ pc'         = [pc EXCEPT ![i] = "collected"]
    /\ response'   = [response EXCEPT ![i] = NoResponse]
    /\ request'    = [request EXCEPT ![i] = NoRequest]
    /\ attrs'      = [attrs EXCEPT ![i] = << >>]
    /\ outcome'    = [outcome EXCEPT ![i] = Pending]
    /\ reads'      = [reads EXCEPT ![i] = CountReads(<<>>)]
    /\ outbound'   = [outbound EXCEPT ![i] = 0]
    /\ policyRuns' = [policyRuns EXCEPT ![i] = 0]
    /\ calls'      = [calls EXCEPT ![i] = 0]
    /\ before'     = [before EXCEPT ![i] = << >>]
    /\ turn'       = i + 1

\* The caller, holding the outcome of a call, calls extract() on the same
\* instance again: the instance keeps its attributes.
Reuse(i) ==
    /\ Scheduled(i)
    /\ pc[i] = "done"
    /\ calls[i] < MaxCalls
    /\ pc'         = [pc EXCEPT ![i] = "idle"]
    /\ response'   = [response EXCEPT ![i] = NoResponse]
    /\ request'    = [request EXCEPT ![i] = NoRequest]
    /\ outcome'    = [outcome EXCEPT ![i] = Pending]
    /\ reads'      = [reads EXCEPT ![i] = CountReads(<<>>)]
    /\ outbound'   = [outbound EXCEPT ![i] = 0]
    /\ policyRuns' = [policyRuns EXCEPT ![i] = 0]
    /\ UNCHANGED <<slug, cls, attrs, calls, before, turn>>

Next ==
    \E i \in Inst :
        \/ Construct(i)
        \/ Fetch(i, Responses)
        \/ ReturnContent(i)
        \/ StoreBuffer(i)
        \/ ContentStatus(i)
        \/ ReturnBuffer(i)
        \/ Summarize(i)
        \/ ZemantaCall(i, Responses)
        \/ ZemantaCheck(i)
        \/ Reuse(i)
        \/ Collect(i)

NextConc ==
    \E i \in Inst :
        \/ Construct(i)
        \/ Fetch(i, ConcResponses)
        \/ ReturnContent(i)
        \/ StoreBuffer(i)
        \/ ContentStatus(i)
        \/ ReturnBuffer(i)
        \/ Summarize(i)
        \/ ZemantaCall(i, ConcResponses)
        \/ ZemantaCheck(i)

Spec == Init /\ [][Next]_vars

SpecConc == InitConc /\ [][NextConc]_vars

(***************************************************************************)
(* Properties.                                                             *)
(***************************************************************************)
\* Instance i's call has ended.
Done(i) == pc[i] = "done"

Failed(i, e) == Done(i) /\ outcome[i].kind = "raise" /\ outcome[i].error = e

\* The class has a _content_status method.
HasPolicy(c) == HasAttr(c, "_content_status")

\* The status field of the payload signals failure by the convention of the
\* service of class c, and the message the payload embeds.
SignalsFailure(c, content) ==
    /\ content.kind = "json"
    /\ IF c = "RepustateExtractor" THEN content.status # "OK"
                                   ELSE content.status = "ERROR"

SignalsSuccess(c, content) ==
    /\ content.kind = "json"
    /\ ~SignalsFailure(c, content)

EmbeddedMessage(c, content) ==
    IF c = "RepustateExtractor" THEN content.status ELSE content.msg

HasBuffer(i) == "_content" \in DOMAIN attrs[i]

\* C1: whenever a call on an instance of a class with a _content_status
\* method has ended after a successful response whose status field signals
\* failure, it has raised ContentExtractorError with the embedded message.
C1_ContentFailureRaised ==
    \A i \in Inst :
        ( /\ Done(i)
          /\ HasPolicy(cls[i])
          /\ response[i].success
          /\ SignalsFailure(cls[i], response[i].content) )
        => outcome[i] = Raise("ContentExtractorError",
                              EmbeddedMessage(cls[i], response[i].content))

\* C2: a call that has ended after a response with success false has raised
\* ExtractorError itself with the response's err_msg and has not run
\* _content_status; _content_status has run only after a successful response.
C2_TransportFailure ==
    \A i \in Inst :
        /\ (Done(i) /\ ~response[i].success)
              => /\ outcome[i] = Raise("ExtractorError", response[i].err_msg)
                 /\ policyRuns[i] = 0
        /\ policyRuns[i] > 0 => response[i].success

C2_Witness ==
    \E i \in Inst :
        /\ Failed(i, "ExtractorError")
        /\ Decorated(cls[i], "check_content_status")
        /\ response[i].err_msg = "HTTP 500"

\* C3: once the caller has looked a slug up, it holds the registered class
\* with that SLUG when there is one, whichever class of the registry that
\* is, and None when no registered class has that SLUG.
C3_RegistryLookup ==
    \A i \in Inst :
        pc[i] \notin {"new", "collected"} =>
            /\ \A k \in 1 .. Len(extractor_list) :
                   slug[i] = ClassDict[extractor_list[k]].SLUG
                       => cls[i] = extractor_list[k]
            /\ slug[i] \in UnregisteredSlugs => cls[i] = None

C3_Witness ==
    \E i, j \in Inst :
        /\ pc[i] = "idle" /\ slug[i] = "zemanta" /\ cls[i] = "ZemantaExtractor"
        /\ pc[j] = "notfound" /\ slug[j] = ""

\* C4: a call that has ended after a successful response, on an instance
\* whose class has no _content_status method or whose payload's status
\* field signals success, has returned exactly the content it was given.
C4_SuccessReturnsContent ==
    \A i \in Inst :
        ( /\ Done(i)
          /\ response[i].success
          /\ \/ ~HasPolicy(cls[i])
             \/ SignalsSuccess(cls[i], response[i].content) )
        => outcome[i] = Return(response[i].content)

\* C5 as stated: every call that has ended has made exactly one outbound call.
C5_ExactlyOneOutboundCall ==
    \A i \in Inst : Done(i) => outbound[i] = 1

\* C5: every call that has ended has made exactly one outbound call, except
\* on PythonReadabilityExtractor, where it has made none.
C5_OneOutboundCallUnlessLocal ==
    \A i \in Inst :
        Done(i) => outbound[i] =
                      IF cls[i] = "PythonReadabilityExtractor" THEN 0 ELSE 1

C5_Witness ==
    \E i \in Inst :
        /\ Failed(i, "ContentExtractorError")
        /\ calls[i] = 2
        /\ outbound[i] = 1

\* C6 as stated: after a call that raised either error kind the instance's
\* attributes are what they were when the call began.
C6_FailureLeavesInstanceUnchanged ==
    \A i \in Inst :
        (Done(i) /\ IsExtractorError(outcome[i])) => attrs[i] = before[i]

\* C6: after a call that raised ExtractorError itself the instance's
\* attributes are what they were when the call began; after a call that
\* raised ContentExtractorError they differ from that only in _content,
\* which holds the payload of the call.
C6_TransportFailureLeavesInstanceUnchanged ==
    \A i \in Inst :
        /\ Failed(i, "ExtractorError") => attrs[i] = before[i]
        /\ Failed(i, "ContentExtractorError")
              => attrs[i] = SetAttr(before[i], "_content", response[i].content)

C6_Witness ==
    \E i \in Inst :
        /\ Failed(i, "ExtractorError")
        /\ calls[i] = 2
        /\ HasBuffer(i)

\* The outcome of a call on an instance of class c that runs alone and is
\* answered resp.
AloneOutcome(c, resp) ==
    CASE Extract(c).body = "PythonReadabilityExtractor" ->
            Return(Text(AsciiIgnore(resp.content.chars)))
      [] Extract(c).body = "ZemantaExtractor" ->
            IF resp.success THEN Return(resp.content)
                            ELSE Raise("ExtractorError", resp.err_msg)
      [] OTHER ->
            IF ~resp.success THEN Raise("ExtractorError", resp.err_msg)
            ELSE IF ~Decorated(c, "check_content_status") THEN Return(resp.content)
            ELSE IF _content_status(c, resp.content).kind = "raise"
                 THEN _content_status(c, resp.content)
                 ELSE Return(resp.content)

\* C7: with the calls running concurrently, a call that has ended has the
\* outcome its own response gives it when it runs alone, and at every moment
\* an instance's working buffer, once its call has stored it, holds the
\* content of its own response and its data instance is its own.
C7_NoCrossTalk ==
    \A i \in Inst :
        /\ Done(i) => outcome[i] = AloneOutcome(cls[i], response[i])
        /\ (pc[i] \in {"stored", "checked", "done"} /\ HasBuffer(i))
              => attrs[i]["_content"] = response[i].content
        /\ pc[i] \in {"idle", "fetched", "yielded", "stored", "checked", "done"}
              => attrs[i]["data_instance"] = DataInstanceOf(i)

C7_Witness ==
    \E i, j \in Inst :
        /\ i # j
        /\ Failed(i, "ContentExtractorError")
        /\ pc[j] = "checked"
        /\ attrs[j]["_content"] # attrs[i]["_content"]

\* C8 as stated: a call reads no member of its data instance more than once.
C8_EachMemberReadAtMostOnce ==
    \A i \in Inst : \A m \in Members : reads[i][m] <= 1

\* C8: a call reads no member of its data instance more than once, except
\* that a call on ZemantaExtractor reads raw_encoding twice.
C8_EachMemberReadAtMostOnceUnlessZemanta ==
    \A i \in Inst : \A m \in Members :
        IF cls[i] = "ZemantaExtractor" /\ m = "raw_encoding" /\ calls[i] > 0
           /\ pc[i] # "idle"
        THEN reads[i][m] = 2
        ELSE reads[i][m] <= 1

C8_Witness ==
    \E i \in Inst :
        /\ Done(i)
        /\ cls[i] = "ZemantaExtractor"
        /\ reads[i] = [get_raw_html |-> 1, raw_encoding |-> 2, get_url |-> 0]

\* C9: on a class whose extract is wrapped by check_content_status, from the
\* moment _content_status runs to the end of the call, be it a raised
\* ContentExtractorError or a return, the working buffer holds the content
\* of the call's response, and what is returned is that content.
C9_BufferHoldsPayload ==
    \A i \in Inst :
        /\ (pc[i] \in {"stored", "checked"} \/ (Done(i) /\ policyRuns[i] > 0))
              => /\ HasBuffer(i)
                 /\ attrs[i]["_content"] = response[i].content
        /\ (Done(i) /\ policyRuns[i] > 0 /\ outcome[i].kind = "return")
              => outcome[i].value = response[i].content

C9_Witness ==
    \E i \in Inst :
        /\ Failed(i, "ContentExtractorError")
        /\ calls[i] = 2
        /\ "_content" \in DOMAIN before[i]
        /\ before[i]["_content"] # attrs[i]["_content"]

\* C10: the request a BoilerpipeArticleExtractor has built carries
\* extractorType 'article', the one a BoilerpipeDefaultExtractor has built
\* carries 'default', and they are otherwise the request of the Boilerpipe
\* body for the instance's document.
C10_BoilerpipeExtractorType ==
    \A i \in Inst :
        (cls[i] \in {"BoilerpipeArticleExtractor", "BoilerpipeDefaultExtractor"}
            /\ request[i] # NoRequest)
        => LET d == DataInstanceOf(i) IN
           request[i] =
              [method   |-> "POST",
               endpoint |-> "settings.BOILERPIPE_API_ENDPOINT",
               data     |-> [extractorType |->
                                 IF cls[i] = "BoilerpipeArticleExtractor"
                                 THEN "article" ELSE "default",
                             rawHtml |-> Encode(d.raw_html, d.raw_encoding)],
               headers  |-> "Content-Type: application/x-www-form-urlencoded"]
====
